---------------------------- MODULE Spec2Model ----------------------------
(***************************************************************************)
(* Model of preprocess_FE.py: the calendar-aware feature encoder           *)
(* (curfew_periods, encode_dates and its steps), the weather feature       *)
(* builder and the dead-period cleaner delete_zeros.                       *)
(*                                                                         *)
(* A DataFrame is a record [cols, rows]: the set of column names and the   *)
(* sequence of rows, each row a function from the column names to values.  *)
(* A timestamp is a record [year, month, day, hour, minute] (naive local   *)
(* time); timestamps are ordered by the minutes elapsed since 0001-01-01.  *)
(* Float columns are modelled by integers: log_bike_count by a natural     *)
(* number (it is log(1 + count) of a count >= 0), sine and cosine by the   *)
(* value times 1000, rounded.                                              *)
(***************************************************************************)
EXTENDS Integers, Sequences, FiniteSets, Bags, TLC

VARIABLES
    data,             \* the table the caller holds (rebound to each returned table)
    arg,              \* the object passed to the last call, as the call left it
    op,               \* the last operation called
    err,              \* the exception the last call raised, "" when none
    input,            \* the table the run started from
    school_holidays,  \* DatetimeIndex of get_zone_c_holidays(), as a set
    public_holidays,  \* DatetimeIndex of get_public_holidays(), as a set
    counter_dtype,    \* dtype of counter_name: categorical or not, its categories
    sharded           \* rows returned by delete_zeros run shard by shard

vars == << data, arg, op, err, input, school_holidays, public_holidays,
           counter_dtype, sharded >>

(***************************************************************************)
(* Bounds of the model.                                                    *)
(***************************************************************************)
LastYear == 2021
MaxMonthRows == 2
MaxCleanRows == 3
MaxPipelineRows == 2

(***************************************************************************)
(* Calendar arithmetic of pandas timestamps.                               *)
(***************************************************************************)
IsLeap(y) == (y % 4 = 0) /\ ((y % 100 # 0) \/ (y % 400 = 0))

DaysInMonth(y, m) ==
    IF m = 2 THEN (IF IsLeap(y) THEN 29 ELSE 28)
    ELSE IF m \in {4, 6, 9, 11} THEN 30 ELSE 31

RECURSIVE DaysBeforeMonth(_, _)
DaysBeforeMonth(y, m) ==
    IF m = 1 THEN 0 ELSE DaysBeforeMonth(y, m - 1) + DaysInMonth(y, m - 1)

DaysBeforeYear(y) ==
    (y - 1) * 365 + ((y - 1) \div 4) - ((y - 1) \div 100) + ((y - 1) \div 400)

\* proleptic Gregorian ordinal of a date, 0001-01-01 being day 1
Ordinal(t) == DaysBeforeYear(t.year) + DaysBeforeMonth(t.year, t.month) + t.day

\* Series.dt.weekday: Monday is 0, Sunday is 6
Weekday(t) == (Ordinal(t) + 6) % 7

Ts(y, m, d, h, mi) == [year |-> y, month |-> m, day |-> d, hour |-> h, minute |-> mi]

\* pd.Timestamp("YYYY-MM-DD"), pd.to_datetime(date): midnight of that day
Timestamp(date) == Ts(date[1], date[2], date[3], 0, 0)

\* Series.dt.floor("D")
FloorDay(t) == Ts(t.year, t.month, t.day, 0, 0)

\* the value a timestamp is compared by
Minutes(t) == (Ordinal(t) * 24 + t.hour) * 60 + t.minute

TsLeq(a, b) == Minutes(a) <= Minutes(b)

(***************************************************************************)
(* DataFrame operations.                                                   *)
(***************************************************************************)
NRows(df) == Len(df.rows)

HasColumn(df, c) == c \in df.cols

\* row r with column c set to v (added when absent)
SetCol(r, c, v) == [k \in (DOMAIN r) \cup {c} |-> IF k = c THEN v ELSE r[k]]

\* df[c] = series: the column is set (or added) in every row
Assign(df, c, series) ==
    [cols |-> df.cols \cup {c},
     rows |-> [i \in 1..Len(df.rows) |-> SetCol(df.rows[i], c, series[i])]]

\* df.drop(columns = cs): a new table
Drop(df, cs) ==
    [cols |-> df.cols \ cs,
     rows |-> [i \in 1..Len(df.rows) |->
                  [k \in (DOMAIN df.rows[i]) \ cs |-> df.rows[i][k]]]]

\* outcome of a call: the exception raised ("" when none), the argument
\* object as the call left it, and the table returned
Returned(a, r) == [err |-> "", arg |-> a, ret |-> r]
Raised(e, a) == [err |-> e, arg |-> a, ret |-> a]

(***************************************************************************)
(* curfew_periods                                                          *)
(***************************************************************************)
curfews ==
    << << <<2020, 10, 17>>, <<2020, 10, 29>>, 21, 6 >>,
       << <<2021, 1, 16>>,  <<2021, 3, 20>>,  18, 6 >>,
       << <<2021, 3, 21>>,  <<2021, 5, 19>>,  19, 6 >>,
       << <<2021, 5, 20>>,  <<2021, 6, 9>>,   21, 6 >>,
       << <<2021, 6, 10>>,  <<2021, 6, 20>>,  23, 6 >> >>

\* InCurfew without the comparison with the end date
InCurfew_NoEndDate(w, timestamp) ==
    /\ TsLeq(Timestamp(w[1]), timestamp)
    /\ (timestamp.hour >= w[3] \/ timestamp.hour < w[4])

\* one iteration of the loop of is_curfew: the window returns 1
InCurfew(w, timestamp) ==
    /\ TsLeq(Timestamp(w[1]), timestamp)
    /\ TsLeq(timestamp, Timestamp(w[2]))
    /\ (timestamp.hour >= w[3] \/ timestamp.hour < w[4])

is_curfew(timestamp) ==
    IF \E i \in 1..Len(curfews) : InCurfew(curfews[i], timestamp) THEN 1 ELSE 0

curfew_periods(df, date_column) ==
    IF ~HasColumn(df, date_column) THEN Raised("KeyError", df)
    ELSE LET out == Assign(df, "curfew",
                        [i \in 1..NRows(df) |-> LET r == df.rows[i] IN is_curfew(r[date_column])])
         IN  Returned(out, out)

(***************************************************************************)
(* add_basic_date_features, add_season_feature, add_indicator_features     *)
(***************************************************************************)
\* add_basic_date_features reading the column "date" in place of "date_x"
add_basic_date_features_FromDate(X) ==
    IF ~HasColumn(X, "date") THEN Raised("KeyError", X)
    ELSE LET X1 == Assign(X, "year",
                       [i \in 1..NRows(X) |-> LET r == X.rows[i] IN r.date.year])
             X2 == Assign(X1, "month",
                       [i \in 1..NRows(X1) |-> LET r == X1.rows[i] IN r.date.month])
             X3 == Assign(X2, "day",
                       [i \in 1..NRows(X2) |-> LET r == X2.rows[i] IN r.date.day])
             X4 == Assign(X3, "weekday",
                       [i \in 1..NRows(X3) |-> LET r == X3.rows[i] IN Weekday(r.date)])
             X5 == Assign(X4, "hour",
                       [i \in 1..NRows(X4) |-> LET r == X4.rows[i] IN r.date.hour])
         IN  Returned(X5, X5)

add_basic_date_features(X) ==
    IF ~HasColumn(X, "date_x") THEN Raised("KeyError", X)
    ELSE LET X1 == Assign(X, "year",
                       [i \in 1..NRows(X) |-> LET r == X.rows[i] IN r.date_x.year])
             X2 == Assign(X1, "month",
                       [i \in 1..NRows(X1) |-> LET r == X1.rows[i] IN r.date_x.month])
             X3 == Assign(X2, "day",
                       [i \in 1..NRows(X2) |-> LET r == X2.rows[i] IN r.date_x.day])
             X4 == Assign(X3, "weekday",
                       [i \in 1..NRows(X3) |-> LET r == X3.rows[i] IN Weekday(r.date_x)])
             X5 == Assign(X4, "hour",
                       [i \in 1..NRows(X4) |-> LET r == X4.rows[i] IN r.date_x.hour])
         IN  Returned(X5, X5)

\* Season with December left out of the winter months
Season_NoDecember(month) ==
    IF month \in {1, 2} THEN "Winter"
    ELSE IF month \in {3, 4, 5} THEN "Spring"
    ELSE IF month \in {6, 7, 8} THEN "Summer"
    ELSE IF month \in {9, 10, 11} THEN "Fall"
    ELSE "Unknown"

\* np.select(conditions, seasons, default = "Unknown")
Season(month) ==
    IF month \in {12, 1, 2} THEN "Winter"
    ELSE IF month \in {3, 4, 5} THEN "Spring"
    ELSE IF month \in {6, 7, 8} THEN "Summer"
    ELSE IF month \in {9, 10, 11} THEN "Fall"
    ELSE "Unknown"

add_season_feature(X) ==
    IF ~HasColumn(X, "month") THEN Raised("KeyError", X)
    ELSE LET out == Assign(X, "season",
                        [i \in 1..NRows(X) |-> LET r == X.rows[i] IN Season(r.month)])
         IN  Returned(out, out)

\* Series.isin(values).astype(int): equality of the whole timestamp
IsIn(timestamp, values) == IF timestamp \in values THEN 1 ELSE 0

IsPeak(x) == IF (6 <= x /\ x < 9) \/ (16 <= x /\ x < 19) THEN 1 ELSE 0

\* add_indicator_features selecting the school-holiday rows instead of
\* flagging them
add_indicator_features_Filter(X, school, public) ==
    IF ~HasColumn(X, "date_x") THEN Raised("KeyError", X)
    ELSE LET X1 == [cols |-> X.cols,
                    rows |-> SelectSeq(X.rows, LAMBDA r : r.date_x \in school)]
             X2 == Assign(X1, "school_holiday",
                       [i \in 1..NRows(X1) |-> LET r == X1.rows[i] IN 1])
             X3 == Assign(X2, "public_holiday",
                       [i \in 1..NRows(X2) |-> LET r == X2.rows[i] IN IsIn(r.date_x, public)])
         IN  IF ~HasColumn(X3, "hour") THEN Raised("KeyError", X)
             ELSE LET X4 == Assign(X3, "is_peak",
                                [i \in 1..NRows(X3) |-> LET r == X3.rows[i] IN IsPeak(r.hour)])
                  IN  Returned(X, X4)

add_indicator_features(X, school, public) ==
    IF ~HasColumn(X, "date_x") THEN Raised("KeyError", X)
    ELSE LET X1 == Assign(X, "school_holiday",
                       [i \in 1..NRows(X) |-> LET r == X.rows[i] IN IsIn(r.date_x, school)])
             X2 == Assign(X1, "public_holiday",
                       [i \in 1..NRows(X1) |-> LET r == X1.rows[i] IN IsIn(r.date_x, public)])
         IN  IF ~HasColumn(X2, "hour") THEN Raised("KeyError", X2)
             ELSE LET X3 == Assign(X2, "is_peak",
                                [i \in 1..NRows(X2) |-> LET r == X2.rows[i] IN IsPeak(r.hour)])
                  IN  Returned(X3, X3)

(***************************************************************************)
(* create_cyclical_features: sine and cosine times 1000, of an angle that  *)
(* is a multiple of 15 degrees (periods 24 and 12)                         *)
(***************************************************************************)
SinQuarter == << 0, 259, 500, 707, 866, 966, 1000 >>

Sin1000(k) ==
    LET a == k % 24
    IN  IF a <= 6 THEN SinQuarter[a + 1]
        ELSE IF a <= 12 THEN SinQuarter[12 - a + 1]
        ELSE IF a <= 18 THEN 0 - SinQuarter[a - 12 + 1]
        ELSE 0 - SinQuarter[24 - a + 1]

Cos1000(k) == Sin1000(k + 6)

create_cyclical_features(df, column, period) ==
    IF ~HasColumn(df, column) THEN Raised("KeyError", df)
    ELSE LET step == 24 \div period
             d1 == Assign(df, "sin_" \o column,
                       [i \in 1..NRows(df) |-> LET r == df.rows[i] IN Sin1000(r[column] * step)])
             d2 == Assign(d1, "cos_" \o column,
                       [i \in 1..NRows(d1) |-> LET r == d1.rows[i] IN Cos1000(r[column] * step)])
         IN  Returned(d2, Drop(d2, {column}))

(***************************************************************************)
(* encode_dates: the first three steps and the first create_cyclical_      *)
(* features change the caller's table in place; the table returned is a    *)
(* new one.                                                                *)
(***************************************************************************)
encode_dates(X, school, public) ==
    LET r1 == add_basic_date_features(X)
    IN  IF r1.err # "" THEN Raised(r1.err, r1.arg) ELSE
    LET r2 == add_season_feature(r1.ret)
    IN  IF r2.err # "" THEN Raised(r2.err, r2.arg) ELSE
    LET r3 == add_indicator_features(r2.ret, school, public)
    IN  IF r3.err # "" THEN Raised(r3.err, r3.arg) ELSE
    LET r4 == create_cyclical_features(r3.ret, "hour", 24)
    IN  IF r4.err # "" THEN Raised(r4.err, r4.arg) ELSE
    LET r5 == create_cyclical_features(r4.ret, "month", 12)
    IN  IF r5.err # "" THEN Raised(r5.err, r4.arg) ELSE
    LET r6 == curfew_periods(r5.ret, "date_x")
    IN  IF r6.err # "" THEN Raised(r6.err, r4.arg) ELSE
    IF ~HasColumn(r6.ret, "date_x") THEN Raised("KeyError", r4.arg)
    ELSE Returned(r4.arg, Drop(r6.ret, {"date_x"}))

(***************************************************************************)
(* Weather features.  rr1 is the rainfall in whole millimetres.            *)
(***************************************************************************)
\* pd.cut(bins = [-1, 0, 2, 10, inf]): left-open, right-closed intervals
RainCategory(rr1) ==
    IF rr1 <= -1 THEN "NaN"
    ELSE IF rr1 <= 0 THEN "No Rain"
    ELSE IF rr1 <= 2 THEN "Light Rain"
    ELSE IF rr1 <= 10 THEN "Moderate Rain"
    ELSE "Heavy Rain"

categorize_weather(df) ==
    IF ~HasColumn(df, "rr1") THEN Raised("KeyError", df)
    ELSE LET out == Assign(df, "rain_category",
                        [i \in 1..NRows(df) |-> LET r == df.rows[i] IN RainCategory(r.rr1)])
         IN  Returned(out, out)

add_weather_indicators(df) ==
    IF ~HasColumn(df, "t") THEN Raised("KeyError", df)
    ELSE LET d1 == Assign(df, "is_hot_day",
                       [i \in 1..NRows(df) |-> LET r == df.rows[i] IN IF r.t > 300 THEN 1 ELSE 0])
             d2 == Assign(d1, "is_cold_day",
                       [i \in 1..NRows(d1) |-> LET r == d1.rows[i] IN IF r.t < 283 THEN 1 ELSE 0])
         IN  IF ~HasColumn(d2, "ff") THEN Raised("KeyError", d2)
             ELSE LET d3 == Assign(d2, "high_wind",
                                [i \in 1..NRows(d2) |-> LET r == d2.rows[i] IN IF r.ff > 5 THEN 1 ELSE 0])
                  IN  Returned(d3, d3)

engineer_weather_features(df) ==
    LET r1 == categorize_weather(df)
    IN  IF r1.err # "" THEN Raised(r1.err, r1.arg)
        ELSE add_weather_indicators(r1.ret)

(***************************************************************************)
(* delete_zeros                                                            *)
(***************************************************************************)
CounterNames == << "A", "B" >>      \* the sensors, in lexicographic order

Counters == { CounterNames[i] : i \in 1..Len(CounterNames) }

Rank(c) == CHOOSE i \in 1..Len(CounterNames) : CounterNames[i] = c

\* missing value of a column of an outer join
NaT == Ts(0, 0, 0, 0, 0)
NaN == -1
Missing(column) ==
    IF column \in {"date", "date_x"} THEN NaT
    ELSE IF column \in {"season", "rain_category"} THEN "NaN"
    ELSE NaN

\* KeyOf with the day alone as the key
KeyOf_DayOnly(r) == << CounterNames[1], r.truncated_date >>

\* the join key (counter_name, truncated_date) and its lexicographic order
KeyOf(r) == << r.counter_name, r.truncated_date >>

KeyLess(k1, k2) ==
    \/ Rank(k1[1]) < Rank(k2[1])
    \/ (k1[1] = k2[1] /\ Minutes(k1[2]) < Minutes(k2[2]))

RECURSIVE SortKeys(_)
SortKeys(S) ==
    IF S = {} THEN << >>
    ELSE LET k == CHOOSE x \in S : \A y \in S \ {x} : KeyLess(x, y)
         IN  << k >> \o SortKeys(S \ {k})

RECURSIVE SumSeq(_)
SumSeq(s) == IF s = << >> THEN 0 ELSE Head(s) + SumSeq(Tail(s))

RowsOfKey(rows, k) == SelectSeq(rows, LAMBDA r : KeyOf(r) = k)

\* groupby(["counter_name", "truncated_date"], observed = False): with a
\* categorical counter_name, every category is grouped with every day seen
GroupKeys(df, dtype) ==
    LET seen == { KeyOf(df.rows[i]) : i \in 1..Len(df.rows) }
    IN  IF dtype.categorical
        THEN { << c, k[2] >> : c \in dtype.categories, k \in seen }
        ELSE seen

\* GroupSum with .count() in place of .sum()
GroupSum_Count(df, k) == Len(RowsOfKey(df.rows, k))

\* ["log_bike_count"].sum() of one group (0 for a group without rows)
GroupSum(df, k) ==
    LET g == RowsOfKey(df.rows, k)
    IN  SumSeq([i \in 1..Len(g) |-> g[i].log_bike_count])

\* IsZeroDay taking a day with any zero reading for a zero day
IsZeroDay_AnyZero(df, k) ==
    \/ GroupSum(df, k) = 0
    \/ \E i \in 1..Len(df.rows) :
          KeyOf(df.rows[i]) = k /\ df.rows[i].log_bike_count = 0

\* .loc[lambda x: x["log_bike_count"] == 0, ["counter_name", "truncated_date"]]
IsZeroDay(df, k) == GroupSum(df, k) = 0

zero_count_days(df, dtype) ==
    LET ks == SortKeys({ k \in GroupKeys(df, dtype) : IsZeroDay(df, k) })
    IN  [cols |-> {"counter_name", "truncated_date"},
         rows |-> [i \in 1..Len(ks) |->
                      [counter_name |-> ks[i][1], truncated_date |-> ks[i][2]]]]

\* the rows an outer join yields for one key, with the indicator column
MergeKey(left, right, k) ==
    LET l == RowsOfKey(left.rows, k)
        r == RowsOfKey(right.rows, k)
    IN  IF l = << >>
        THEN [i \in 1..Len(r) |->
                 [c \in left.cols \cup {"_merge"} |->
                     IF c = "_merge" THEN "right_only"
                     ELSE IF c \in right.cols THEN r[i][c]
                     ELSE Missing(c)]]
        ELSE IF r = << >>
        THEN [i \in 1..Len(l) |-> SetCol(l[i], "_merge", "left_only")]
        ELSE [n \in 1..(Len(l) * Len(r)) |->
                 SetCol(l[((n - 1) \div Len(r)) + 1], "_merge", "both")]

RECURSIVE MergeRows(_, _, _)
MergeRows(left, right, ks) ==
    IF ks = << >> THEN << >>
    ELSE MergeKey(left, right, Head(ks)) \o MergeRows(left, right, Tail(ks))

\* left.merge(right, on = [counter_name, truncated_date], how = "outer",
\* indicator = True): the union of the keys, in lexicographic order
merge(left, right) ==
    LET ks == { KeyOf(left.rows[i]) : i \in 1..Len(left.rows) }
                \cup { KeyOf(right.rows[i]) : i \in 1..Len(right.rows) }
    IN  [cols |-> left.cols \cup {"_merge"},
         rows |-> MergeRows(left, right, SortKeys(ks))]

\* Kept dropping the matched rows only ("_merge != 'both'")
Kept_NotBoth(r) == r["_merge"] # "both"

\* .query("_merge == 'left_only'")
Kept(r) == r["_merge"] = "left_only"

query(df) == [cols |-> df.cols, rows |-> SelectSeq(df.rows, Kept)]

delete_zeros(df, dtype) ==
    IF ~HasColumn(df, "date") THEN Raised("KeyError", df)
    ELSE LET d1 == Assign(df, "truncated_date",
                       [i \in 1..NRows(df) |-> LET r == df.rows[i] IN FloorDay(r.date)])
         IN  IF ~({"counter_name", "log_bike_count"} \subseteq d1.cols)
             THEN Raised("KeyError", d1)
             ELSE LET zeros == zero_count_days(d1, dtype)
                      cleaned_data == Drop(query(merge(d1, zeros)),
                                           {"_merge", "truncated_date"})
                  IN  Returned(d1, cleaned_data)

(***************************************************************************)
(* Inputs.                                                                 *)
(***************************************************************************)
Years == 2020..LastYear
MinutesOfHour == {0, 30}

AllTimestamps ==
    { t \in [year : Years, month : 1..12, day : 1..31, hour : 0..23,
             minute : MinutesOfHour] : t.day <= DaysInMonth(t.year, t.month) }

Table(cols, rows) == [cols |-> cols, rows |-> rows]

SeqsUpTo(S, n) == UNION { [1..k -> S] : k \in 0..n }

NamesIn(rows) == { rows[i].counter_name : i \in 1..Len(rows) }

\* counter_name is an object column, or a categorical one whose categories
\* include every name that occurs
Dtypes(rows) ==
    { [categorical |-> FALSE, categories |-> {}] }
    \cup { [categorical |-> TRUE, categories |-> cs] :
              cs \in { x \in SUBSET Counters : NamesIn(rows) \subseteq x } }

NoDtype == [categorical |-> FALSE, categories |-> {}]
NotSharded == [done |-> FALSE, rows |-> << >>]

CurfewInputs == { Table({"date_x"}, << [date_x |-> t] >>) : t \in AllTimestamps }

MonthValues == 0..13
MonthInputs ==
    { Table({"month"}, rows) :
         rows \in SeqsUpTo([month : MonthValues], MaxMonthRows) }

CleanTimestamps ==
    { Ts(2020, 10, 29, 8, 0), Ts(2020, 10, 29, 17, 30), Ts(2020, 10, 30, 8, 0) }
CleanRows ==
    [counter_name : Counters, date : CleanTimestamps, log_bike_count : {0, 1}]
CleanInputs ==
    { Table({"counter_name", "date", "log_bike_count"}, rows) :
         rows \in SeqsUpTo(CleanRows, MaxCleanRows) }

\* the day whose midnight, morning and evening are in the pipeline's input,
\* and the day after it
Holiday == <<2020, 10, 29>>
PipelineTimestamps ==
    { Ts(2020, 10, 29, 0, 0), Ts(2020, 10, 29, 22, 0), Ts(2020, 10, 30, 8, 0) }
Weather == { [t |-> 282, rr1 |-> 0, ff |-> 5], [t |-> 301, rr1 |-> 11, ff |-> 6] }
PipelineRows ==
    { [counter_name |-> "A", date |-> ts, date_x |-> ts, log_bike_count |-> n,
       t |-> w.t, rr1 |-> w.rr1, ff |-> w.ff] :
         ts \in PipelineTimestamps, n \in {0, 1}, w \in Weather }
PipelineInputs ==
    { Table({"counter_name", "date", "date_x", "log_bike_count", "t", "rr1", "ff"},
            rows) : rows \in SeqsUpTo(PipelineRows, MaxPipelineRows) }

\* pd.to_datetime of the dates a calendar fetcher returns
ToDatetime(dates) == { Timestamp(d) : d \in dates }

(***************************************************************************)
(* Operations.  The caller runs df = f(df): the variable is rebound only   *)
(* when the call returns, and nothing is called after an exception.        *)
(***************************************************************************)
Call(name, res) ==
    /\ err = ""
    /\ op' = name
    /\ err' = res.err
    /\ arg' = res.arg
    /\ data' = IF res.err = "" THEN res.ret ELSE data
    /\ UNCHANGED << input, school_holidays, public_holidays, counter_dtype, sharded >>

CurfewPeriods == Call("curfew_periods", curfew_periods(data, "date_x"))

AddSeasonFeature == Call("add_season_feature", add_season_feature(data))

EncodeDates ==
    Call("encode_dates", encode_dates(data, school_holidays, public_holidays))

EngineerWeatherFeatures ==
    Call("engineer_weather_features", engineer_weather_features(data))

DeleteZeros == Call("delete_zeros", delete_zeros(data, counter_dtype))

\* the rows of the sensors of one shard
Shard(df, cs) ==
    [cols |-> df.cols, rows |-> SelectSeq(df.rows, LAMBDA r : r.counter_name \in cs)]

RECURSIVE CleanShards(_, _, _, _)
CleanShards(df, dtype, shardOf, i) ==
    IF i > Len(CounterNames) THEN << >>
    ELSE LET cs == { c \in Counters : shardOf[c] = CounterNames[i] }
         IN  delete_zeros(Shard(df, cs), dtype).ret.rows
                \o CleanShards(df, dtype, shardOf, i + 1)

\* after the run on the whole table: the input is split by sensor into
\* shards (shardOf names the shard of each sensor), delete_zeros runs on each
\* shard, the results are concatenated
ShardedDeleteZeros ==
    /\ op = "delete_zeros"
    /\ ~sharded.done
    /\ \E shardOf \in [Counters -> Counters] :
          sharded' = [done |-> TRUE,
                      rows |-> CleanShards(input, counter_dtype, shardOf, 1)]
    /\ UNCHANGED << data, arg, op, err, input, school_holidays, public_holidays,
                    counter_dtype >>

(***************************************************************************)
(* Specifications.                                                         *)
(***************************************************************************)
Start(tables) ==
    /\ data \in tables
    /\ arg = data
    /\ input = data
    /\ op = "init"
    /\ err = ""
    /\ sharded = NotSharded

\* curfew_periods on every half hour of the years 2020..LastYear
InitCurfew ==
    /\ Start(CurfewInputs)
    /\ school_holidays = {}
    /\ public_holidays = {}
    /\ counter_dtype = NoDtype

NextCurfew == CurfewPeriods

SpecCurfew == InitCurfew /\ [][NextCurfew]_vars

\* add_season_feature on tables of month values
InitSeason ==
    /\ Start(MonthInputs)
    /\ school_holidays = {}
    /\ public_holidays = {}
    /\ counter_dtype = NoDtype

NextSeason == AddSeasonFeature

SpecSeason == InitSeason /\ [][NextSeason]_vars

\* delete_zeros on a table, whole and shard by shard
InitClean ==
    /\ Start(CleanInputs)
    /\ school_holidays = {}
    /\ public_holidays = {}
    /\ counter_dtype \in Dtypes(data.rows)

NextClean == DeleteZeros \/ ShardedDeleteZeros

SpecClean == InitClean /\ [][NextClean]_vars

\* the pipeline: the cleaner and the two feature builders, in any order
InitPipeline ==
    /\ Start(PipelineInputs)
    /\ school_holidays \in { ToDatetime(ds) : ds \in SUBSET {Holiday} }
    /\ public_holidays \in { ToDatetime(ds) : ds \in SUBSET {Holiday} }
    /\ counter_dtype \in { NoDtype, [categorical |-> TRUE, categories |-> Counters] }

Next == DeleteZeros \/ EncodeDates \/ EngineerWeatherFeatures

Spec == InitPipeline /\ [][Next]_vars

(***************************************************************************)
(* Properties.                                                             *)
(***************************************************************************)
Windows == { curfews[i] : i \in 1..Len(curfews) }

\* the calendar date of t lies within [start date, end date] of window w
DateInWindow(w, t) ==
    /\ TsLeq(Timestamp(w[1]), FloorDay(t))
    /\ TsLeq(FloorDay(t), Timestamp(w[2]))

HourInCurfew(w, t) == t.hour >= w[3] \/ t.hour < w[4]

\* the number of rows of a table equal to r
Copies(df, r) == Cardinality({ i \in 1..Len(df.rows) : df.rows[i] = r })

\* the rows of the input in the (counter_name, calendar day) group of row r
GroupOf(r) ==
    { i \in 1..Len(input.rows) :
         /\ input.rows[i].counter_name = r.counter_name
         /\ FloorDay(input.rows[i].date) = FloorDay(r.date) }

\* C1: for every timestamp t and every curfew window whose [start date,
\* end date] holds the calendar date of t (any hour of the end date
\* included), is_curfew(t) is 1 exactly when hour(t) >= start hour or
\* hour(t) < end hour.
C1_CurfewOnEveryDayOfWindow ==
    op = "curfew_periods" =>
        \A i \in 1..NRows(data) : \A w \in Windows :
            DateInWindow(w, data.rows[i].date_x) =>
                (data.rows[i].curfew = 1 <=> HourInCurfew(w, data.rows[i].date_x))

\* C2: a timestamp whose calendar date lies in none of the five windows has
\* curfew 0, whatever its hour.
C2_NoCurfewOutsideWindows ==
    op = "curfew_periods" =>
        \A i \in 1..NRows(data) :
            (\A w \in Windows : ~DateInWindow(w, data.rows[i].date_x))
                => data.rows[i].curfew = 0

\* a night hour of a day in the gap between the first two windows got 0
C2_Witness ==
    /\ op = "curfew_periods"
    /\ NRows(data) = 1
    /\ data.rows[1].date_x = Ts(2020, 12, 1, 23, 30)
    /\ data.rows[1].curfew = 0

\* C3: for every row of encode_dates, whatever its hour, school_holiday is 1
\* iff the calendar day of date_x is in the school-holiday set, and
\* public_holiday is 1 iff that day is in the public-holiday set.
C3_HolidayFlagsByCalendarDay ==
    (op = "encode_dates" /\ err = "") =>
        \A i \in 1..NRows(data) :
            /\ data.rows[i].school_holiday = 1
                  <=> FloorDay(arg.rows[i].date_x) \in school_holidays
            /\ data.rows[i].public_holiday = 1
                  <=> FloorDay(arg.rows[i].date_x) \in public_holidays

\* C4: every row of a (counter_name, day) group of the input that has a
\* row with a non-zero log_bike_count is in the output of delete_zeros,
\* as many times as in the input.
C4_LiveDaysKept ==
    (op = "delete_zeros" /\ err = "") =>
        \A i \in 1..NRows(input) :
            (\E j \in GroupOf(input.rows[i]) : input.rows[j].log_bike_count # 0)
                => Copies(data, input.rows[i]) >= Copies(input, input.rows[i])

\* a live day with a zero row in it was kept whole, beside a dead day
C4_Witness ==
    /\ op = "delete_zeros"
    /\ err = ""
    /\ NRows(data) = 2
    /\ NRows(input) = 3
    /\ \E i, j \in 1..NRows(data) :
          /\ KeyOf(arg.rows[i]) = KeyOf(arg.rows[j])
          /\ data.rows[i].log_bike_count = 0
          /\ data.rows[j].log_bike_count # 0

\* C5: no row of a (counter_name, day) group of the input whose rows all
\* have log_bike_count zero is in the output of delete_zeros.
C5_DeadDaysRemoved ==
    (op = "delete_zeros" /\ err = "") =>
        \A i \in 1..NRows(input) :
            (\A j \in GroupOf(input.rows[i]) : input.rows[j].log_bike_count = 0)
                => Copies(data, input.rows[i]) = 0

\* a dead day of two rows was removed, the other row of the table kept
C5_Witness ==
    /\ op = "delete_zeros"
    /\ err = ""
    /\ NRows(input) = 3
    /\ NRows(data) = 1
    /\ \E i, j \in 1..NRows(input) :
          /\ i # j
          /\ KeyOf(arg.rows[i]) = KeyOf(arg.rows[j])
          /\ input.rows[i].log_bike_count = 0
          /\ input.rows[j].log_bike_count = 0

\* C6: encode_dates and engineer_weather_features return as many rows as
\* they are given (and leave as many in the table they are given);
\* delete_zeros alone changes the row count.
C6_FeatureBuildersKeepRowCount ==
    [][ op' \in {"encode_dates", "engineer_weather_features"} =>
            (NRows(data') = NRows(data) /\ NRows(arg') = NRows(data)) ]_vars

\* both feature builders ran on a table delete_zeros had shortened
C6_Witness ==
    /\ op = "engineer_weather_features"
    /\ err = ""
    /\ {"curfew", "high_wind"} \subseteq data.cols
    /\ NRows(data) > 0
    /\ NRows(data) < NRows(input)

\* C7: encode_dates called on a table that an encode_dates call returned
\* (it has the curfew column) raises, and the table is as it was: no column
\* added or changed.
C7_SecondEncodeFails ==
    [][ ("curfew" \in data.cols /\ op' = "encode_dates") =>
            (err' = "KeyError" /\ arg' = data /\ data' = data) ]_vars

\* the second call was made on encoded rows and raised
C7_Witness ==
    /\ op = "encode_dates"
    /\ err = "KeyError"
    /\ "curfew" \in data.cols
    /\ "date_x" \notin data.cols
    /\ NRows(data) > 0

\* C8: delete_zeros run on each shard of a split by counter_name returns,
\* all shards together, the rows delete_zeros returns for the whole table.
C8_ShardingBySensor ==
    (op = "delete_zeros" /\ err = "" /\ sharded.done) =>
        /\ Len(sharded.rows) = NRows(data)
        /\ \A i \in 1..NRows(data) :
              Copies(sharded, data.rows[i]) = Copies(data, data.rows[i])

\* two sensors in two shards: one with a dead day, one live on that day
C8_Witness ==
    /\ op = "delete_zeros"
    /\ err = ""
    /\ sharded.done
    /\ NRows(input) = 3
    /\ NRows(data) = 2
    /\ \A i \in 1..NRows(data) : data.rows[i].counter_name = "B"
    /\ \E i, j \in 1..NRows(input) :
          /\ input.rows[i].counter_name = "A"
          /\ input.rows[j].counter_name = "B"
          /\ FloorDay(input.rows[i].date) = FloorDay(input.rows[j].date)

\* C9: add_season_feature maps every month of 1..12 to its season of the
\* partition, and gives "Unknown" only to a month outside 1..12.
C9_SeasonPartition ==
    op = "add_season_feature" =>
        \A i \in 1..NRows(data) :
            LET m == data.rows[i].month
                season == data.rows[i].season
            IN  /\ m \in {12, 1, 2} => season = "Winter"
                /\ m \in {3, 4, 5} => season = "Spring"
                /\ m \in {6, 7, 8} => season = "Summer"
                /\ m \in {9, 10, 11} => season = "Fall"
                /\ season = "Unknown" <=> m \notin 1..12

\* December and a month outside 1..12 in one table
C9_Witness ==
    /\ op = "add_season_feature"
    /\ \E i, j \in 1..NRows(data) :
          /\ data.rows[i].month = 12
          /\ data.rows[i].season = "Winter"
          /\ data.rows[j].month = 13
          /\ data.rows[j].season = "Unknown"

\* C10: the output of delete_zeros has the columns of the input, every row
\* of it is a row of the input, and a row of the input is in it either not
\* at all or as many times as in the input.
C10_OutputIsSubCollection ==
    (op = "delete_zeros" /\ err = "") =>
        /\ data.cols = input.cols
        /\ \A i \in 1..NRows(data) :
              /\ DOMAIN data.rows[i] = input.cols
              /\ Copies(data, data.rows[i]) = Copies(input, data.rows[i])

\* the zero-day records held a sensor/day pair without rows (a category
\* that does not occur), and a dead day of the input was removed
C10_Witness ==
    /\ op = "delete_zeros"
    /\ err = ""
    /\ counter_dtype.categorical
    /\ \E c \in counter_dtype.categories : c \notin NamesIn(input.rows)
    /\ NRows(data) > 0
    /\ NRows(data) < NRows(input)

=============================================================================
